---- MODULE Spec2Model ----
(***************************************************************************)
(* A model of the Glk adapter of zork1-web (createGlk, src/vite.config.js) *)
(* and of the terminal that hosts it (ZorkTerminal, src/unnamed/part_000). *)
(*                                                                         *)
(* Text is a sequence of UTF-16 code units, a JS array is a sequence whose *)
(* element i+1 is the array's element i, and an object reference is the    *)
(* object's index in the collection that holds it (NULL is JS null).       *)
(***************************************************************************)
EXTENDS Integers, Sequences, FiniteSets

(***************************************************************************)
(* Program constants                                                       *)
(***************************************************************************)
evtype_None == 0
evtype_CharInput == 2
evtype_LineInput == 3
wintype_TextBuffer == 3
wintype_TextGrid == 4
filemode_Write == 1
filemode_Read == 2
filemode_ReadWrite == 3
gestalt_CharOutput == 2
gestalt_CharOutput_ExactPrint == 2
gestalt_LineInput == 3
gestalt_Unicode == 15
garglk_gestalt_Graphics == 4352
seekmode_Start == 0
seekmode_Current == 1
seekmode_End == 2

\* JS null / undefined, as a reference or as a value
NULL == 0
\* the main window is windows[0] and its stream is streams[0]
mainWindow == 1
mainStream == 1
\* String.fromCharCode keeps the low 16 bits of its argument
CodeUnitRange == 65536

\* '\n*** Game session ended ***'
ExitBanner ==
  <<10, 42, 42, 42, 32, 71, 97, 109, 101, 32, 115, 101, 115, 115, 105, 111,
    110, 32, 101, 110, 100, 101, 100, 32, 42, 42, 42>>

(***************************************************************************)
(* Bounds of the model                                                     *)
(***************************************************************************)
\* SpecOut: write calls, calls on the terminal and windows opened in one
\* behaviour
MaxOut == 4
\* SpecIn: line-input requests and submitted lines in one behaviour, and the
\* capacity of the smaller VM-owned line buffer
MaxReq == 2
MaxSubmit == 2
LineCap == 2
\* SpecSession: writes, terminal calls and opened streams in one behaviour
MaxSessionCalls == 4
\* SpecHost: line-input requests, handler invocations and write calls in one
\* behaviour
MaxHostReq == 1
MaxHostCalls == 2
MaxHostWrites == 1
\* SpecInOut: line-input requests, submitted lines and write calls in one
\* behaviour
MaxIoReq == 1
MaxIoSubmit == 1
MaxIoWrites == 1
\* SpecFile: file streams opened and write calls in one behaviour
MaxFileCalls == 3
\* SpecStore: file streams opened in one behaviour
MaxStoreStreams == 1
\* SpecMem: memory streams opened and write calls in one behaviour, and the
\* capacity of a memory stream's buffer
MaxMemStreams == 1
MaxMemWrites == 3
MaxBufLen == 2
\* SpecSeek: write calls in one behaviour, the read count
\* of a stream up to which reads are made, and the furthest position a seek
\* is asked for
MaxSeekWrites == 2
MaxSeekReads == 2
MaxPos == 3
\* SpecRead: write calls in one behaviour
MaxReadWrites == 2

\* arguments the VM passes
CharArgs == {65}
TextArgs == {<<72, 105>>}
BufArgs == {<<72, 105>>}
\* lines the user submits: the empty line, "n", "up", and the prefix of
\* "northwest" that is one character longer than the smaller line buffer
Word == <<110, 111, 114, 116, 104, 119, 101, 115, 116>>
CommandArgs == {<<>>, <<110>>, <<117, 112>>, SubSeq(Word, 1, LineCap + 1)}

VARIABLES
  outputBuffer,   \* let outputBuffer
  windows,        \* let windows
  streams,        \* let streams
  currentStream,  \* let currentStream
  inputState,     \* const inputState
  lineBufs,       \* the VM-owned arrays passed to _request_line
  events,         \* the RefStruct objects the VM passes, by their fields
  store,          \* localStorage
  inputResolver,  \* ZorkTerminal.inputResolver
  termLog,        \* the calls made on the terminal, in order
  hc,             \* ZorkTerminal.handleCommand's position and locals
  vmQuit,         \* vm.quit
  resumeLog,      \* the arguments of the vm.resume calls, in order
  ret,            \* the value the last value-returning operation returned
  writtenCur,     \* history: the texts written to the current stream
  routed,         \* history: the texts written to the current or main stream,
                  \*          and the banner of each glk_exit
  nWrites,        \* history: number of write calls
  strayed,        \* history: a write named a stream that was not current
  diverted,       \* history: the streams a write to which went to the buffer
  abandoned,      \* history: buffers of overwritten requests, as they were
  nReg,           \* history: number of waitForInput registrations
  called,         \* history: the registrations whose handler was invoked
  nSubmit,        \* history: number of submitted lines
  saved,          \* history: the data last saved under each name, the units
                  \*          that had been written to the saved stream, and
                  \*          whether it was opened for writing only and none
                  \*          of its writes went to the buffer
  wroteTo         \* history: the units written to each stream, in order

glkVars == <<outputBuffer, windows, streams, currentStream, inputState>>
vmVars == <<lineBufs, events, vmQuit, resumeLog>>
termVars == <<inputResolver, termLog, hc>>
outHist == <<writtenCur, routed, nWrites, strayed, diverted>>
inHist == <<abandoned, nReg, called, nSubmit>>
fileHist == <<saved, wroteTo>>
vars == <<glkVars, vmVars, termVars, store, ret, outHist, inHist, fileHist>>

(***************************************************************************)
(* Helpers                                                                 *)
(***************************************************************************)
\* Min that returns its first argument
Min_First(a, b) == a

Min(a, b) == IF a < b THEN a ELSE b

\* String.fromCharCode(ch): one code unit, ch modulo 2^16
FromCharCode(ch) == <<ch % CodeUnitRange>>

RECURSIVE FromCharCodes(_)
\* for (i...) outputBuffer += String.fromCharCode(buf[i])
FromCharCodes(buf) ==
  IF buf = <<>> THEN <<>> ELSE FromCharCode(Head(buf)) \o FromCharCodes(Tail(buf))

\* a[i] = v on a JS array (i is the 0-based index): an index past the end
\* grows the array, leaving holes; a negative index is not an element
ArrayStore(a, i, v) ==
  IF i < 0 THEN a
  ELSE IF i < Len(a) THEN [a EXCEPT ![i + 1] = v]
  ELSE a \o [k \in 1..(i - Len(a)) |-> NULL] \o <<v>>

\* RefStruct.set_field(idx, val)
set_field(ev, idx, val) == [ev EXCEPT ![idx + 1] = val]

\* new RefStruct(): this.fields = [0, 0, 0, 0]
RefStruct == <<0, 0, 0, 0>>

\* createStream(rock): the stream object (the rock is an inert tag, left out)
createStream ==
  [write_count |-> 0, read_count |-> 0, data |-> <<>>, dataIsArray |-> TRUE,
   pos |-> 0, hasBuf |-> FALSE, buf |-> <<>>, buflen |-> 0, fmode |-> NULL,
   fref |-> NULL]

\* createWindow(type, rock): the window object, its stream being streams[str]
createWindow(type, str) ==
  [type |-> type, str |-> str, input_request_type |-> "null",
   line_input_buf |-> NULL]

\* a value that may be missing (localStorage.getItem's null), and one that is not
Absent == [has |-> FALSE, val |-> <<>>]
Present(v) == [has |-> TRUE, val |-> v]

\* the logical names of the file references: 'zork1-save'
\* (glk_fileref_create_by_prompt) and one given to glk_fileref_create_by_name
FileNames == {1, 2}

\* the calls the adapter makes on the terminal
TermPrint(text) == [op |-> "print", text |-> text]
TermError(text) == [op |-> "handleError", text |-> text]
TermWait == [op |-> "waitForInput", text |-> <<>>]

RECURSIVE PrintedOf(_)
\* the concatenation of the texts passed to terminal.print, in call order
PrintedOf(log) ==
  IF log = <<>> THEN <<>>
  ELSE (IF Head(log).op = "print" THEN Head(log).text ELSE <<>>)
         \o PrintedOf(Tail(log))

Printed == PrintedOf(termLog)

\* the VM runs only while no terminal event handler is on the stack
VMRuns == hc.pc = "idle"

(***************************************************************************)
(* Initial state: createGlk(terminal) has returned, new ZorkTerminal()     *)
(***************************************************************************)
Init ==
  /\ outputBuffer = <<>>
  /\ streams = <<createStream>>
  /\ windows = <<createWindow(wintype_TextBuffer, mainStream)>>
  /\ currentStream = mainStream
  /\ inputState = [buffer |-> NULL, maxLen |-> 0, pending |-> FALSE, event |-> NULL]
  /\ lineBufs = <<[i \in 1..LineCap |-> 0], [i \in 1..(LineCap + 1) |-> 0]>>
  /\ events = <<RefStruct>>
  /\ store = [n \in FileNames |-> Absent]
  /\ inputResolver = NULL
  /\ termLog = <<>>
  /\ hc = [pc |-> "idle", stmt |-> 0, command |-> <<>>, took |-> FALSE,
           len |-> 0, i |-> 0]
  /\ vmQuit = FALSE
  /\ resumeLog = <<>>
  /\ ret = 0
  /\ writtenCur = <<>>
  /\ routed = <<>>
  /\ nWrites = 0
  /\ strayed = FALSE
  /\ diverted = {}
  /\ abandoned = [b \in 1..2 |-> Absent]
  /\ nReg = 0
  /\ called = <<>>
  /\ nSubmit = 0
  /\ saved = [n \in FileNames |->
               [has |-> FALSE, val |-> <<>>, written |-> <<>>, plain |-> FALSE]]
  /\ wroteTo = <<(<<>>)>>

(***************************************************************************)
(* Output                                                                  *)
(***************************************************************************)
StreamArgs == 1..Len(streams)
WindowArgs == 1..Len(windows)

\* ToBuffer without the main stream
ToBuffer_CurrentOnly(str) == str = currentStream

ToBuffer(str) == str = mainStream \/ str = currentStream

\* history of a write of text to stream str
Wrote(str, text) ==
  /\ nWrites' = nWrites + 1
  /\ writtenCur' = IF str = currentStream THEN writtenCur \o text ELSE writtenCur
  /\ routed' = IF ToBuffer(str) THEN routed \o text ELSE routed
  /\ strayed' = (strayed \/ str # currentStream)
  /\ diverted' = IF ToBuffer(str) THEN diverted \cup {str} ELSE diverted
  /\ wroteTo' = [wroteTo EXCEPT ![str] = @ \o text]
  /\ saved' = saved

glk_put_char(ch) ==
  /\ VMRuns
  /\ outputBuffer' = outputBuffer \o FromCharCode(ch)
  /\ Wrote(currentStream, <<ch>>)
  /\ UNCHANGED <<windows, streams, currentStream, inputState, vmVars, termVars,
                 store, ret, inHist>>

glk_put_string(text) ==
  /\ VMRuns
  /\ outputBuffer' = outputBuffer \o text
  /\ Wrote(currentStream, text)
  /\ UNCHANGED <<windows, streams, currentStream, inputState, vmVars, termVars,
                 store, ret, inHist>>

glk_put_buffer(buf) ==
  /\ VMRuns
  /\ outputBuffer' = outputBuffer \o FromCharCodes(buf)
  /\ Wrote(currentStream, buf)
  /\ UNCHANGED <<windows, streams, currentStream, inputState, vmVars, termVars,
                 store, ret, inHist>>

\* PutCharOther without the capacity test of a memory stream
PutCharOther_NoGuard(s, ch) ==
  IF s.hasBuf
    THEN [s EXCEPT !.buf = ArrayStore(s.buf, s.pos, ch), !.pos = s.pos + 1,
                   !.write_count = s.write_count + 1]
    ELSE [s EXCEPT !.data = Append(s.data, ch), !.write_count = s.write_count + 1]

\* the stream object after glk_put_char_stream(str, ch) on a stream that is
\* neither the main nor the current stream
PutCharOther(s, ch) ==
  IF s.hasBuf
    THEN IF s.pos < s.buflen
           THEN [s EXCEPT !.buf = ArrayStore(s.buf, s.pos, ch), !.pos = s.pos + 1,
                          !.write_count = s.write_count + 1]
           ELSE [s EXCEPT !.write_count = s.write_count + 1]
    ELSE [s EXCEPT !.data = Append(s.data, ch), !.write_count = s.write_count + 1]

glk_put_char_stream(str, ch) ==
  /\ VMRuns
  /\ IF ToBuffer(str)
       THEN /\ outputBuffer' = outputBuffer \o FromCharCode(ch)
            /\ streams' = [streams EXCEPT ![str].write_count = @ + 1]
       ELSE /\ outputBuffer' = outputBuffer
            /\ streams' = [streams EXCEPT ![str] = PutCharOther(@, ch)]
  /\ Wrote(str, <<ch>>)
  /\ UNCHANGED <<windows, currentStream, inputState, vmVars, termVars,
                 store, ret, inHist>>

\* every stream has a data array (createStream), so the str.data branch is
\* taken by every stream that is neither the main nor the current stream
glk_put_string_stream(str, text) ==
  /\ VMRuns
  /\ IF ToBuffer(str)
       THEN /\ outputBuffer' = outputBuffer \o text
            /\ streams' = [streams EXCEPT ![str].write_count = @ + Len(text)]
       ELSE /\ outputBuffer' = outputBuffer
            /\ streams' = [streams EXCEPT ![str].data = @ \o text,
                                          ![str].write_count = @ + Len(text)]
  /\ Wrote(str, text)
  /\ UNCHANGED <<windows, currentStream, inputState, vmVars, termVars,
                 store, ret, inHist>>

\* the str.data branch comes before the str.buf branch, and every stream has
\* a data array: the str.buf branch is never taken
glk_put_buffer_stream(str, buf) ==
  /\ VMRuns
  /\ IF ToBuffer(str)
       THEN /\ outputBuffer' = outputBuffer \o FromCharCodes(buf)
            /\ streams' = [streams EXCEPT ![str].write_count = @ + Len(buf)]
       ELSE /\ outputBuffer' = outputBuffer
            /\ streams' = [streams EXCEPT ![str].data = @ \o buf,
                                          ![str].write_count = @ + Len(buf)]
  /\ Wrote(str, buf)
  /\ UNCHANGED <<windows, currentStream, inputState, vmVars, termVars,
                 store, ret, inHist>>

\* text is a JavaScript string, by its code units; an empty text returns
\* at once
glk_put_jstring_stream(str, text) ==
  /\ VMRuns
  /\ IF text = <<>> THEN UNCHANGED <<outputBuffer, streams>>
     ELSE IF ToBuffer(str)
       THEN /\ outputBuffer' = outputBuffer \o text
            /\ streams' = [streams EXCEPT ![str].write_count = @ + Len(text)]
       ELSE /\ outputBuffer' = outputBuffer
            /\ streams' = [streams EXCEPT ![str].data = @ \o text,
                                          ![str].write_count = @ + Len(text)]
  /\ Wrote(str, text)
  /\ UNCHANGED <<windows, currentStream, inputState, vmVars, termVars,
                 store, ret, inHist>>

(***************************************************************************)
(* Windows and the current stream                                          *)
(***************************************************************************)
glk_window_open(wintype) ==
  /\ VMRuns
  /\ streams' = Append(streams, createStream)
  /\ windows' = Append(windows, createWindow(wintype, Len(streams) + 1))
  /\ wroteTo' = Append(wroteTo, <<>>)
  /\ UNCHANGED <<outputBuffer, currentStream, inputState, vmVars, termVars,
                 store, ret, outHist, inHist, saved>>

\* win is a window or NULL
glk_set_window(win) ==
  /\ VMRuns
  /\ currentStream' = IF win # NULL THEN windows[win].str ELSE currentStream
  /\ UNCHANGED <<outputBuffer, windows, streams, inputState, vmVars, termVars,
                 store, ret, outHist, inHist, fileHist>>

\* glk_stream_set_current that selects whatever it is given
glk_stream_set_current_asgiven(str) ==
  /\ VMRuns
  /\ currentStream' = str
  /\ UNCHANGED <<outputBuffer, windows, streams, inputState, vmVars, termVars,
                 store, ret, outHist, inHist, fileHist>>

\* str is a stream or NULL
glk_stream_set_current(str) ==
  /\ VMRuns
  /\ currentStream' = IF str # NULL THEN str ELSE mainStream
  /\ UNCHANGED <<outputBuffer, windows, streams, inputState, vmVars, termVars,
                 store, ret, outHist, inHist, fileHist>>

(***************************************************************************)
(* Flush checkpoints                                                       *)
(***************************************************************************)
\* update that prints the buffer and does not reset it
update_keeps_buffer ==
  /\ VMRuns
  /\ termLog' = IF outputBuffer # <<>>
                  THEN Append(termLog, TermPrint(outputBuffer)) ELSE termLog
  /\ UNCHANGED <<glkVars, vmVars, inputResolver, hc, store, ret, outHist,
                 inHist, fileHist>>

update ==
  /\ VMRuns
  /\ IF outputBuffer # <<>>
       THEN /\ termLog' = Append(termLog, TermPrint(outputBuffer))
            /\ outputBuffer' = <<>>
       ELSE UNCHANGED <<termLog, outputBuffer>>
  /\ UNCHANGED <<windows, streams, currentStream, inputState, vmVars,
                 inputResolver, hc, store, ret, outHist, inHist, fileHist>>

glk_exit ==
  /\ VMRuns
  /\ termLog' = (IF outputBuffer # <<>>
                   THEN Append(termLog, TermPrint(outputBuffer))
                   ELSE termLog) \o <<TermPrint(ExitBanner)>>
  /\ outputBuffer' = <<>>
  /\ routed' = routed \o ExitBanner
  /\ UNCHANGED <<windows, streams, currentStream, inputState, vmVars,
                 inputResolver, hc, store, ret, writtenCur, nWrites, strayed, diverted,
                 inHist, fileHist>>

\* msg is the text of the error; console.error is not modelled
fatal_error(msg) ==
  /\ VMRuns
  /\ termLog' = Append(termLog, TermError(msg))
  /\ UNCHANGED <<glkVars, vmVars, inputResolver, hc, store, ret, outHist,
                 inHist, fileHist>>

\* glk_request_char_event that does not flush
glk_request_char_event_noflush(win) ==
  /\ VMRuns
  /\ windows' = IF win # NULL
                  THEN [windows EXCEPT ![win].input_request_type = "char"]
                  ELSE windows
  /\ UNCHANGED <<outputBuffer, streams, currentStream, inputState, vmVars,
                 termVars, store, ret, outHist, inHist, fileHist>>

glk_request_char_event(win) ==
  /\ VMRuns
  /\ IF outputBuffer # <<>>
       THEN /\ termLog' = Append(termLog, TermPrint(outputBuffer))
            /\ outputBuffer' = <<>>
       ELSE UNCHANGED <<termLog, outputBuffer>>
  /\ windows' = IF win # NULL
                  THEN [windows EXCEPT ![win].input_request_type = "char"]
                  ELSE windows
  /\ UNCHANGED <<streams, currentStream, inputState, vmVars,
                 inputResolver, hc, store, ret, outHist, inHist, fileHist>>

(***************************************************************************)
(* Line input: the adapter's side                                          *)
(***************************************************************************)
LineBufArgs == 1..Len(lineBufs)
EventArgs == 1..Len(events)

\* RequestState that leaves a request that is still pending in place
RequestState_KeepFirst(buf) ==
  IF inputState.pending /\ inputState.buffer # NULL THEN inputState
  ELSE [inputState EXCEPT !.buffer = buf,
                          !.maxLen = IF buf # NULL THEN Len(lineBufs[buf]) ELSE 0,
                          !.pending = TRUE]

\* inputState after _request_line stored the request (buf is a line buffer
\* or NULL)
RequestState(buf) ==
  [inputState EXCEPT !.buffer = buf,
                     !.maxLen = IF buf # NULL THEN Len(lineBufs[buf]) ELSE 0,
                     !.pending = TRUE]

\* win is a window or NULL, buf a VM-owned array or NULL; the callback passed
\* to terminal.waitForInput is a new closure, named by its registration number
_request_line(win, buf) ==
  /\ VMRuns
  /\ termLog' = (IF outputBuffer # <<>>
                   THEN Append(termLog, TermPrint(outputBuffer))
                   ELSE termLog) \o <<TermWait>>
  /\ outputBuffer' = <<>>
  /\ inputState' = RequestState(buf)
  /\ windows' = IF win # NULL
                  THEN [windows EXCEPT ![win].input_request_type = "line",
                                       ![win].line_input_buf = buf]
                  ELSE windows
  /\ inputResolver' = nReg + 1
  /\ nReg' = nReg + 1
  /\ abandoned' =
       [b \in DOMAIN abandoned |->
          IF b = buf THEN Absent
          ELSE IF inputState.pending /\ b = inputState.buffer
                 THEN Present(lineBufs[b])
          ELSE abandoned[b]]
  /\ UNCHANGED <<streams, currentStream, vmVars, hc, store, ret, outHist,
                 called, nSubmit, fileHist>>

\* SelectFields without the reset of the length
SelectFields_KeepLength(ev) ==
  set_field(set_field(set_field(ev, 0, evtype_LineInput), 1, mainWindow), 3, 0)

\* the four set_field calls of glk_select, in order
SelectFields(ev) ==
  set_field(set_field(set_field(set_field(ev, 0, evtype_LineInput),
                                1, mainWindow), 2, 0), 3, 0)

glk_select(event) ==
  /\ VMRuns
  /\ inputState' = [inputState EXCEPT !.event = event]
  /\ events' = [events EXCEPT ![event] = SelectFields(@)]
  /\ UNCHANGED <<outputBuffer, windows, streams, currentStream, lineBufs, vmQuit,
                 resumeLog, termVars, store, ret, outHist, inHist, fileHist>>

\* glk_select_poll that also forgets the captured event
glk_select_poll_forgets(event) ==
  /\ VMRuns
  /\ events' = [events EXCEPT ![event] = set_field(@, 0, evtype_None)]
  /\ inputState' = [inputState EXCEPT !.event = NULL]
  /\ UNCHANGED <<outputBuffer, windows, streams, currentStream, lineBufs, vmQuit,
                 resumeLog, termVars, store, ret, outHist, inHist, fileHist>>

glk_select_poll(event) ==
  /\ VMRuns
  /\ events' = [events EXCEPT ![event] = set_field(@, 0, evtype_None)]
  /\ UNCHANGED <<glkVars, lineBufs, vmQuit, resumeLog, termVars, store, ret,
                 outHist, inHist, fileHist>>

\* glk_cancel_line_event that keeps the window's buffer reference
glk_cancel_line_event_keepsbuf(win, event) ==
  /\ VMRuns
  /\ windows' = IF win # NULL
                  THEN [windows EXCEPT ![win].input_request_type = "null"]
                  ELSE windows
  /\ events' = IF event # NULL
                 THEN [events EXCEPT ![event] = set_field(@, 0, 0)]
                 ELSE events
  /\ UNCHANGED <<outputBuffer, streams, currentStream, inputState, lineBufs,
                 vmQuit, resumeLog, termVars, store, ret, outHist, inHist, fileHist>>

\* win is a window or NULL, event a RefStruct or NULL
glk_cancel_line_event(win, event) ==
  /\ VMRuns
  /\ windows' = IF win # NULL
                  THEN [windows EXCEPT ![win].input_request_type = "null",
                                       ![win].line_input_buf = NULL]
                  ELSE windows
  /\ events' = IF event # NULL
                 THEN [events EXCEPT ![event] = set_field(@, 0, 0)]
                 ELSE events
  /\ UNCHANGED <<outputBuffer, streams, currentStream, inputState, lineBufs,
                 vmQuit, resumeLog, termVars, store, ret, outHist, inHist, fileHist>>

\* result is a RefStruct or NULL
glk_window_close(win, result) ==
  /\ VMRuns
  /\ events' = IF result # NULL
                 THEN [events EXCEPT ![result] =
                         set_field(set_field(@, 0, streams[windows[win].str].read_count),
                                   1, streams[windows[win].str].write_count)]
                 ELSE events
  /\ UNCHANGED <<glkVars, lineBufs, vmQuit, resumeLog, termVars, store, ret,
                 outHist, inHist, fileHist>>

(***************************************************************************)
(* Line input: the terminal's side (ZorkTerminal.handleCommand)            *)
(***************************************************************************)
\* CallbackBody with the length published before the copy
CallbackBody_LengthFirst == <<"set_length", "copy", "clear_pending">>

\* the statements of the callback's if-branch, in the order of the source
CallbackBody == <<"copy", "set_length", "clear_pending">>

\* the position after statement k of the callback's if-branch
AfterStmt(k) ==
  IF k < Len(CallbackBody) THEN [pc |-> "callback", stmt |-> k + 1]
  ELSE [pc |-> "resume", stmt |-> 0]

\* CallbackGuard that looks at the buffer only
CallbackGuard_BufferOnly == inputState.buffer # NULL

\* if (inputState.pending && inputState.buffer)
CallbackGuard == inputState.pending /\ inputState.buffer # NULL

\* TakeResolver that leaves the resolver registered
TakeResolver_Keep == inputResolver

\* this.inputResolver once handleCommand has taken the resolver out of it
TakeResolver == NULL

\* the user submits a line: handleCommand up to the call of the resolver, and
\* the callback up to its if (echo and command history are not modelled)
handleCommand(command) ==
  /\ hc.pc = "idle"
  /\ nSubmit' = nSubmit + 1
  /\ IF inputResolver # NULL
       THEN /\ inputResolver' = TakeResolver
            /\ called' = Append(called, inputResolver)
            /\ LET took == CallbackGuard
                   at == IF took THEN [pc |-> "callback", stmt |-> 1]
                         ELSE [pc |-> "resume", stmt |-> 0]
               IN hc' = [pc |-> at.pc, stmt |-> at.stmt, command |-> command,
                         took |-> took,
                         len |-> IF took THEN Min(Len(command), inputState.maxLen)
                                 ELSE 0,
                         i |-> 0]
       ELSE UNCHANGED <<inputResolver, called, hc>>
  /\ UNCHANGED <<glkVars, vmVars, termLog, store, ret, outHist, abandoned, nReg,
                 fileHist>>

\* for (let i = 0; i < len; i++) inputState.buffer[i] = input.charCodeAt(i):
\* one iteration, or the loop's exit
callback_copy ==
  /\ hc.pc = "callback" /\ CallbackBody[hc.stmt] = "copy"
  /\ IF hc.i < hc.len
       THEN /\ lineBufs' = [lineBufs EXCEPT ![inputState.buffer] =
                              ArrayStore(@, hc.i, hc.command[hc.i + 1])]
            /\ hc' = [hc EXCEPT !.i = hc.i + 1]
       ELSE /\ lineBufs' = lineBufs
            /\ hc' = [hc EXCEPT !.pc = AfterStmt(hc.stmt).pc,
                                !.stmt = AfterStmt(hc.stmt).stmt]
  /\ UNCHANGED <<glkVars, events, vmQuit, resumeLog, inputResolver, termLog,
                 store, ret, outHist, inHist, fileHist>>

\* if (inputState.event) inputState.event.set_field(2, len)
callback_set_length ==
  /\ hc.pc = "callback" /\ CallbackBody[hc.stmt] = "set_length"
  /\ events' = IF inputState.event # NULL
                 THEN [events EXCEPT ![inputState.event] = set_field(@, 2, hc.len)]
                 ELSE events
  /\ hc' = [hc EXCEPT !.pc = AfterStmt(hc.stmt).pc, !.stmt = AfterStmt(hc.stmt).stmt]
  /\ UNCHANGED <<glkVars, lineBufs, vmQuit, resumeLog, inputResolver, termLog,
                 store, ret, outHist, inHist, fileHist>>

\* inputState.pending = false
callback_clear_pending ==
  /\ hc.pc = "callback" /\ CallbackBody[hc.stmt] = "clear_pending"
  /\ inputState' = [inputState EXCEPT !.pending = FALSE]
  /\ hc' = [hc EXCEPT !.pc = AfterStmt(hc.stmt).pc, !.stmt = AfterStmt(hc.stmt).stmt]
  /\ UNCHANGED <<outputBuffer, windows, streams, currentStream, vmVars,
                 inputResolver, termLog, store, ret, outHist, inHist, fileHist>>

RECURSIVE CopyLoop(_, _, _, _)
\* for (let i = 0; i < len; i++) buffer[i] = input.charCodeAt(i), from i on
CopyLoop(buffer, input, i, len) ==
  IF i < len THEN CopyLoop(ArrayStore(buffer, i, input[i + 1]), input, i + 1, len)
  ELSE buffer

\* the handler passed to waitForInput, invoked once more by a terminal that
\* kept it after its first invocation (createGlk takes any terminal); the
\* handlers of all registrations share inputState, and the last one invoked is
\* recorded as invoked again
host_callback(input) ==
  /\ hc.pc = "idle" /\ called # <<>>
  /\ nSubmit' = nSubmit + 1
  /\ called' = Append(called, called[Len(called)])
  /\ IF CallbackGuard
       THEN LET len == Min(Len(input), inputState.maxLen)
            IN /\ lineBufs' = [lineBufs EXCEPT ![inputState.buffer] =
                                 CopyLoop(@, input, 0, len)]
               /\ events' = IF inputState.event # NULL
                              THEN [events EXCEPT ![inputState.event] =
                                      set_field(@, 2, len)]
                              ELSE events
               /\ inputState' = [inputState EXCEPT !.pending = FALSE]
       ELSE UNCHANGED <<lineBufs, events, inputState>>
  /\ UNCHANGED <<outputBuffer, windows, streams, currentStream, vmQuit, resumeLog,
                 termVars, store, ret, outHist, abandoned, nReg, fileHist>>

\* whether handleCommand calls vm.resume once the resolver has returned
ResumeGuard == ~vmQuit

\* if (this.vm && !this.vm.quit) this.vm.resume(command.length), and
\* handleCommand returns (the VM is taken to run on without throwing)
resume ==
  /\ hc.pc = "resume"
  /\ resumeLog' = IF ResumeGuard THEN Append(resumeLog, Len(hc.command))
                   ELSE resumeLog
  /\ hc' = [hc EXCEPT !.pc = "idle"]
  /\ UNCHANGED <<glkVars, lineBufs, events, vmQuit, inputResolver, termLog,
                 store, ret, outHist, inHist, fileHist>>

\* the VM ends its run: vm.quit becomes true
vm_quit ==
  /\ VMRuns /\ ~vmQuit
  /\ vmQuit' = TRUE
  /\ UNCHANGED <<glkVars, lineBufs, events, resumeLog, termVars, store, ret,
                 outHist, inHist, fileHist>>

(***************************************************************************)
(* Persistence: JSON.stringify and JSON.parse on arrays of numbers         *)
(***************************************************************************)
DigitChars == <<"0", "1", "2", "3", "4", "5", "6", "7", "8", "9">>
IsDigit(c) == \E d \in 1..10 : DigitChars[d] = c
DigitVal(c) == (CHOOSE d \in 1..10 : DigitChars[d] = c) - 1

RECURSIVE NumberToString(_)
\* the decimal digits of a non-negative integer
NumberToString(n) ==
  IF n < 10 THEN <<DigitChars[n + 1]>>
  ELSE NumberToString(n \div 10) \o <<DigitChars[(n % 10) + 1]>>

RECURSIVE JoinNumbers(_)
\* the elements in decimal, separated by commas
JoinNumbers(data) ==
  IF data = <<>> THEN <<>>
  ELSE IF Len(data) = 1 THEN NumberToString(Head(data))
  ELSE NumberToString(Head(data)) \o <<",">> \o JoinNumbers(Tail(data))

RECURSIVE ConcatNumbers(_)
ConcatNumbers(data) ==
  IF data = <<>> THEN <<>>
  ELSE NumberToString(Head(data)) \o ConcatNumbers(Tail(data))

\* JSONStringify without the separators
JSONStringify_NoComma(data) == <<"[">> \o ConcatNumbers(data) \o <<"]">>

\* JSON.stringify(data) of an array of non-negative integers, as its characters
JSONStringify(data) == <<"[">> \o JoinNumbers(data) \o <<"]">>

RECURSIVE ParseDigits(_, _, _)
\* the digits of s from position i on: their value, and the position after them
ParseDigits(s, i, acc) ==
  IF i <= Len(s) /\ IsDigit(s[i])
    THEN ParseDigits(s, i + 1, acc * 10 + DigitVal(s[i]))
    ELSE [val |-> acc, next |-> i]

\* a JSON number has a digit, and no leading zero before another digit
NumberAt(s, i) ==
  LET p == ParseDigits(s, i, 0)
  IN [ok |-> p.next > i /\ ~(s[i] = "0" /\ p.next > i + 1),
      val |-> p.val, next |-> p.next]

RECURSIVE ParseItems(_, _, _)
\* the elements of an array from position i on, acc being those before
ParseItems(s, i, acc) ==
  IF i > Len(s) THEN [ok |-> FALSE, val |-> <<>>]
  ELSE LET n == NumberAt(s, i)
       IN IF ~n.ok \/ n.next > Len(s) THEN [ok |-> FALSE, val |-> <<>>]
          ELSE IF s[n.next] = "]"
                 THEN [ok |-> n.next = Len(s), val |-> Append(acc, n.val)]
          ELSE IF s[n.next] = ","
                 THEN ParseItems(s, n.next + 1, Append(acc, n.val))
          ELSE [ok |-> FALSE, val |-> <<>>]

\* JSON.parse(s) where s is made of brackets, commas, digits and characters
\* that start no JSON value: ok is FALSE where JSON.parse throws; array tells
\* an array of non-negative integers (val) from a number (the one element of
\* val)
JSONParse(s) ==
  IF s = <<"[", "]">> THEN [ok |-> TRUE, array |-> TRUE, val |-> <<>>]
  ELSE IF Len(s) >= 2 /\ s[1] = "["
    THEN [ok |-> ParseItems(s, 2, <<>>).ok, array |-> TRUE,
          val |-> ParseItems(s, 2, <<>>).val]
  ELSE IF s # <<>> /\ NumberAt(s, 1).ok /\ NumberAt(s, 1).next = Len(s) + 1
    THEN [ok |-> TRUE, array |-> FALSE, val |-> <<NumberAt(s, 1).val>>]
  ELSE [ok |-> FALSE, array |-> TRUE, val |-> <<>>]

\* the data of a stream opened on a name whose stored value is item
\* (localStorage.getItem): if (saved) try JSON.parse catch []
LoadedData(item) ==
  IF item.has /\ item.val # <<>>
    THEN (IF JSONParse(item.val).ok THEN JSONParse(item.val).val ELSE <<>>)
    ELSE <<>>

\* whether that data is an array: JSON.parse returns a number for a number
LoadedIsArray(item) ==
  IF item.has /\ item.val # <<>> /\ JSONParse(item.val).ok
    THEN JSONParse(item.val).array
    ELSE TRUE

ReadModes == {filemode_Read, filemode_ReadWrite}
WriteModes == {filemode_Write, filemode_ReadWrite}

\* fref is the file reference's filename
glk_stream_open_file(fref, fmode) ==
  /\ VMRuns
  /\ streams' = Append(streams,
       [createStream EXCEPT !.fref = fref, !.fmode = fmode,
                            !.data = IF fmode \in ReadModes
                                       THEN LoadedData(store[fref]) ELSE <<>>,
                            !.dataIsArray = IF fmode \in ReadModes
                                              THEN LoadedIsArray(store[fref])
                                              ELSE TRUE])
  /\ wroteTo' = Append(wroteTo, <<>>)
  /\ UNCHANGED <<outputBuffer, windows, currentStream, inputState, vmVars,
                 termVars, store, ret, outHist, inHist, saved>>

\* another writer of the origin's localStorage stores text under a name
localStorage_setItem(name, text) ==
  /\ VMRuns
  /\ store' = [store EXCEPT ![name] = Present(text)]
  /\ UNCHANGED <<glkVars, vmVars, termVars, ret, outHist, inHist, fileHist>>

\* whether glk_stream_close saves the stream
SavesOnClose(s) == s.fref # NULL /\ s.fmode \in WriteModes

\* result is a RefStruct or NULL
glk_stream_close(str, result) ==
  /\ VMRuns
  /\ events' = IF result # NULL
                 THEN [events EXCEPT ![result] =
                         set_field(set_field(@, 0, streams[str].read_count),
                                   1, streams[str].write_count)]
                 ELSE events
  /\ IF SavesOnClose(streams[str])
       THEN /\ store' = [store EXCEPT ![streams[str].fref] =
                           Present(JSONStringify(streams[str].data))]
            /\ saved' = [saved EXCEPT ![streams[str].fref] =
                           [has |-> TRUE, val |-> streams[str].data,
                            written |-> wroteTo[str],
                            plain |-> /\ streams[str].fmode = filemode_Write
                                      /\ str \notin diverted]]
       ELSE UNCHANGED <<store, fileHist>>
  /\ UNCHANGED <<glkVars, lineBufs, vmQuit, resumeLog, termVars, ret, outHist,
                 inHist, wroteTo>>

glk_fileref_does_file_exist(fref) ==
  /\ VMRuns
  /\ ret' = IF store[fref].has THEN 1 ELSE 0
  /\ UNCHANGED <<glkVars, vmVars, termVars, store, outHist, inHist, fileHist>>

(***************************************************************************)
(* Memory streams                                                          *)
(***************************************************************************)
\* buf is a new array of buflen elements
glk_stream_open_memory(buflen, fmode) ==
  /\ VMRuns
  /\ streams' = Append(streams,
       [createStream EXCEPT !.hasBuf = TRUE, !.buf = [i \in 1..buflen |-> 0],
                            !.buflen = buflen, !.fmode = fmode])
  /\ wroteTo' = Append(wroteTo, <<>>)
  /\ UNCHANGED <<outputBuffer, windows, currentStream, inputState, vmVars,
                 termVars, store, ret, outHist, inHist, saved>>

glk_put_char_stream_uni(str, ch) == glk_put_char_stream(str, ch)

(***************************************************************************)
(* Stream positions and reads                                              *)
(***************************************************************************)
\* str.pos after glk_stream_set_position(str, pos, seekmode)
SeekPos(s, pos, seekmode) ==
  IF seekmode = seekmode_Start THEN pos
  ELSE IF seekmode = seekmode_Current THEN s.pos + pos
  ELSE IF seekmode = seekmode_End THEN Len(s.data) + pos
  ELSE s.pos

glk_stream_set_position(str, pos, seekmode) ==
  /\ VMRuns
  /\ streams' = [streams EXCEPT ![str].pos = SeekPos(streams[str], pos, seekmode)]
  /\ UNCHANGED <<outputBuffer, windows, currentStream, inputState, vmVars,
                 termVars, store, ret, outHist, inHist, fileHist>>

\* the sentinel glk_get_char_stream returns when there is nothing to read
NoChar == -1

\* GetChar without the count of the read
GetChar_NoCount(s) ==
  IF s.hasBuf /\ s.pos < s.buflen
    THEN [str |-> [s EXCEPT !.pos = @ + 1], ch |-> s.buf[s.pos + 1]]
  ELSE IF s.dataIsArray /\ s.pos < Len(s.data)
    THEN [str |-> [s EXCEPT !.pos = @ + 1], ch |-> s.data[s.pos + 1]]
  ELSE [str |-> s, ch |-> NoChar]

\* glk_get_char_stream on the stream object s (its cursor not negative): the
\* stream object afterwards and the value returned
GetChar(s) ==
  IF s.hasBuf /\ s.pos < s.buflen
    THEN [str |-> [s EXCEPT !.read_count = @ + 1, !.pos = @ + 1],
          ch |-> s.buf[s.pos + 1]]
  ELSE IF s.dataIsArray /\ s.pos < Len(s.data)
    THEN [str |-> [s EXCEPT !.read_count = @ + 1, !.pos = @ + 1],
          ch |-> s.data[s.pos + 1]]
  ELSE [str |-> s, ch |-> NoChar]

glk_get_char_stream(str) ==
  /\ VMRuns
  /\ streams' = [streams EXCEPT ![str] = GetChar(@).str]
  /\ ret' = GetChar(streams[str]).ch
  /\ UNCHANGED <<outputBuffer, windows, currentStream, inputState, vmVars,
                 termVars, store, outHist, inHist, fileHist>>

\* const maxLen = len || buf.length
MaxLenOf(buf, len) == IF len # 0 THEN len ELSE Len(buf)

RECURSIVE GetBuffer(_, _, _, _)
\* the loop of glk_get_buffer_stream from iteration i on: the stream object,
\* the caller's array and the count when it ends
GetBuffer(s, buf, i, maxLen) ==
  IF i >= maxLen THEN [str |-> s, buf |-> buf, count |-> i]
  ELSE IF GetChar(s).ch = NoChar THEN [str |-> s, buf |-> buf, count |-> i]
  ELSE GetBuffer(GetChar(s).str, ArrayStore(buf, i, GetChar(s).ch), i + 1, maxLen)

\* buf is one of the VM-owned arrays
glk_get_buffer_stream(str, buf, len) ==
  LET r == GetBuffer(streams[str], lineBufs[buf], 0, MaxLenOf(lineBufs[buf], len))
  IN /\ VMRuns
     /\ streams' = [streams EXCEPT ![str] = r.str]
     /\ lineBufs' = [lineBufs EXCEPT ![buf] = r.buf]
     /\ ret' = r.count
     /\ UNCHANGED <<outputBuffer, windows, currentStream, inputState, events,
                    vmQuit, resumeLog, termVars, store, outHist, inHist, fileHist>>

RECURSIVE GetLine(_, _, _, _)
\* the loop of glk_get_line_stream from iteration i on: it runs to maxLen - 1
\* and ends after a newline
GetLine(s, buf, i, maxLen) ==
  IF i >= maxLen - 1 THEN [str |-> s, buf |-> buf, count |-> i]
  ELSE IF GetChar(s).ch = NoChar THEN [str |-> s, buf |-> buf, count |-> i]
  ELSE IF GetChar(s).ch = 10
    THEN [str |-> GetChar(s).str, buf |-> ArrayStore(buf, i, 10), count |-> i + 1]
  ELSE GetLine(GetChar(s).str, ArrayStore(buf, i, GetChar(s).ch), i + 1, maxLen)

glk_get_line_stream(str, buf, len) ==
  LET r == GetLine(streams[str], lineBufs[buf], 0, MaxLenOf(lineBufs[buf], len))
  IN /\ VMRuns
     /\ streams' = [streams EXCEPT ![str] = r.str]
     /\ lineBufs' = [lineBufs EXCEPT ![buf] = r.buf]
     /\ ret' = r.count
     /\ UNCHANGED <<outputBuffer, windows, currentStream, inputState, events,
                    vmQuit, resumeLog, termVars, store, outHist, inHist, fileHist>>

(***************************************************************************)
(* Capability queries                                                      *)
(***************************************************************************)
\* glk_gestalt without the Unicode answer
glk_gestalt_NoUnicode(sel, val) ==
  CASE sel = gestalt_CharOutput -> gestalt_CharOutput_ExactPrint
    [] sel = gestalt_LineInput -> 1
    [] OTHER -> 0

glk_gestalt(sel, val) ==
  CASE sel = gestalt_CharOutput -> gestalt_CharOutput_ExactPrint
    [] sel = gestalt_LineInput -> 1
    [] sel = gestalt_Unicode -> 1
    [] sel = garglk_gestalt_Graphics -> 0
    [] OTHER -> 0

glk_gestalt_ext(sel, val, arr) == glk_gestalt(sel, val)

\* the VM calls glk_gestalt(sel, val)
call_glk_gestalt(sel, val) ==
  /\ VMRuns
  /\ ret' = glk_gestalt(sel, val)
  /\ UNCHANGED <<glkVars, vmVars, termVars, store, outHist, inHist, fileHist>>

\* the VM calls glk_gestalt_ext(sel, val, arr)
call_glk_gestalt_ext(sel, val, arr) ==
  /\ VMRuns
  /\ ret' = glk_gestalt_ext(sel, val, arr)
  /\ UNCHANGED <<glkVars, vmVars, termVars, store, outHist, inHist, fileHist>>

(***************************************************************************)
(* Specifications                                                          *)
(***************************************************************************)
WinOrNull == WindowArgs \cup {NULL}
StreamOrNull == StreamArgs \cup {NULL}
LineBufOrNull == LineBufArgs \cup {NULL}
EventOrNull == EventArgs \cup {NULL}

\* the JavaScript strings the VM writes
JStringArgs == {<<>>, <<72, 105>>}

\* the write calls, the terminal's calls and the windows opened so far
OutCalls == nWrites + Len(termLog) + (Len(windows) - 1)

\* output, the current stream and the flush checkpoints
NextOut ==
  \/ /\ OutCalls < MaxOut
     /\ \/ \E ch \in CharArgs : glk_put_char(ch)
        \/ \E text \in TextArgs : glk_put_string(text)
        \/ \E buf \in BufArgs : glk_put_buffer(buf)
        \/ \E str \in StreamArgs, ch \in CharArgs : glk_put_char_stream(str, ch)
        \/ \E str \in StreamArgs, text \in TextArgs : glk_put_string_stream(str, text)
        \/ \E str \in StreamArgs, buf \in BufArgs : glk_put_buffer_stream(str, buf)
        \/ \E msg \in TextArgs : fatal_error(msg)
        \/ \E str \in StreamArgs, text \in JStringArgs : glk_put_jstring_stream(str, text)
  \/ /\ OutCalls + 1 < MaxOut
     /\ \/ glk_exit
        \/ \E win \in {mainWindow, NULL} : _request_line(win, 1)
  \/ OutCalls < MaxOut /\ glk_window_open(wintype_TextGrid)
  \/ \E win \in WinOrNull : glk_set_window(win)
  \/ \E str \in StreamOrNull : glk_stream_set_current(str)
  \/ update
  \/ \E win \in {mainWindow, NULL} : glk_request_char_event(win)

SpecOut == Init /\ [][NextOut]_vars

\* line input: the requests, the events and the terminal's handler
NextIn ==
  \/ nReg < MaxReq /\ \E win \in WinOrNull, buf \in LineBufOrNull : _request_line(win, buf)
  \/ \E event \in EventArgs : glk_select(event)
  \/ \E event \in EventArgs : glk_select_poll(event)
  \/ \E win \in WinOrNull, event \in EventOrNull : glk_cancel_line_event(win, event)
  \/ \E win \in WindowArgs, result \in EventArgs : glk_window_close(win, result)
  \/ nSubmit < MaxSubmit /\ \E command \in CommandArgs : handleCommand(command)
  \/ callback_copy
  \/ callback_set_length
  \/ callback_clear_pending
  \/ resume
  \/ vm_quit

SpecIn == Init /\ [][NextIn]_vars

\* line input on the main window while text is buffered
NextInOut ==
  \/ nReg < MaxIoReq /\ \E buf \in LineBufArgs : _request_line(mainWindow, buf)
  \/ nWrites < MaxIoWrites /\ \E ch \in CharArgs : glk_put_char(ch)
  \/ \E event \in EventArgs : glk_select(event)
  \/ \E event \in EventArgs : glk_select_poll(event)
  \/ \E win \in WinOrNull, event \in EventOrNull : glk_cancel_line_event(win, event)
  \/ nSubmit < MaxIoSubmit /\ \E command \in CommandArgs : handleCommand(command)
  \/ callback_copy
  \/ callback_set_length
  \/ callback_clear_pending
  \/ resume

SpecInOut == Init /\ [][NextInOut]_vars

\* line input with a terminal that may invoke a handler again
NextHost ==
  \/ nReg < MaxHostReq /\ \E buf \in LineBufOrNull : _request_line(mainWindow, buf)
  \/ nWrites < MaxHostWrites /\ \E ch \in CharArgs : glk_put_char(ch)
  \/ \E event \in EventArgs : glk_select(event)
  \/ nSubmit < MaxHostCalls /\ \E command \in CommandArgs : handleCommand(command)
  \/ callback_copy
  \/ callback_set_length
  \/ callback_clear_pending
  \/ resume
  \/ nSubmit < MaxHostCalls /\ \E input \in CommandArgs : host_callback(input)

SpecHost == Init /\ [][NextHost]_vars

\* the writes, the terminal's calls and the streams opened so far
SessionCalls == nWrites + Len(termLog) + (Len(streams) - 1)

\* a session: windows and streams are opened, selected and closed, while the
\* VM writes to the main stream and its steps end with a flush
NextSession ==
  \/ SessionCalls < MaxSessionCalls /\ glk_window_open(wintype_TextGrid)
  \/ /\ SessionCalls < MaxSessionCalls
     /\ \E buflen \in {MaxBufLen} : glk_stream_open_memory(buflen, filemode_Write)
  \/ \E win \in WinOrNull : glk_set_window(win)
  \/ \E str \in StreamOrNull : glk_stream_set_current(str)
  \/ \E win \in WindowArgs, result \in EventOrNull : glk_window_close(win, result)
  \/ \E str \in StreamArgs, result \in EventOrNull : glk_stream_close(str, result)
  \/ /\ SessionCalls < MaxSessionCalls
     /\ \E ch \in CharArgs : glk_put_char_stream(mainStream, ch)
  \/ update

SpecSession == Init /\ [][NextSession]_vars

\* the numbers the VM writes to a file stream
ByteArgs == {255}

\* the arrays the VM writes to a file stream
DataArgs == {<<0, 72>>}

FileStreamArgs == {str \in StreamArgs : streams[str].fref # NULL}

\* the streams opened and the write calls so far
FileCalls == (Len(streams) - 1) + nWrites

\* file streams and the store
NextFile ==
  \/ /\ FileCalls < MaxFileCalls
     /\ \E fref \in FileNames, fmode \in ReadModes \cup WriteModes :
          glk_stream_open_file(fref, fmode)
  \/ /\ FileCalls < MaxFileCalls
     /\ \/ \E str \in FileStreamArgs, ch \in ByteArgs : glk_put_char_stream(str, ch)
        \/ \E str \in FileStreamArgs, buf \in DataArgs : glk_put_buffer_stream(str, buf)
  \/ \E str \in FileStreamArgs : glk_stream_close(str, NULL)
  \/ \E str \in FileStreamArgs \cup {mainStream} : glk_stream_set_current(str)
  \/ \E fref \in FileNames : glk_fileref_does_file_exist(fref)

SpecFile == Init /\ [][NextFile]_vars

\* the streams other than the main stream
OtherStreams == StreamArgs \ {mainStream}

\* the units, offsets, seek modes and lengths the VM passes
UnitArgs == {10, 65}
OffsetArgs == 0..2
SeekArgs == {seekmode_Start, seekmode_Current, seekmode_End, 3}
LenArgs == {0, 1, LineCap + 1}

\* seeks, reads and writes on one stream, a memory stream or a file stream
\* (the cursors of two streams do not depend on each other)
NextSeek ==
  \/ /\ OtherStreams = {}
     /\ \/ \E buflen \in 0..MaxBufLen : glk_stream_open_memory(buflen, filemode_ReadWrite)
        \/ glk_stream_open_file(1, filemode_Write)
  \/ /\ nWrites < MaxSeekWrites
     /\ \/ \E str \in OtherStreams, ch \in UnitArgs : glk_put_char_stream(str, ch)
        \/ \E str \in OtherStreams, buf \in DataArgs : glk_put_buffer_stream(str, buf)
  \/ \E str \in OtherStreams, pos \in OffsetArgs, seekmode \in SeekArgs :
       /\ SeekPos(streams[str], pos, seekmode) <= MaxPos
       /\ glk_stream_set_position(str, pos, seekmode)
  \/ \E str \in StreamArgs :
       streams[str].read_count < MaxSeekReads /\ glk_get_char_stream(str)

SpecSeek == Init /\ [][NextSeek]_vars

\* reads and writes on one stream, a memory stream or a file stream
NextRead ==
  \/ /\ OtherStreams = {}
     /\ \/ \E buflen \in 0..MaxBufLen : glk_stream_open_memory(buflen, filemode_ReadWrite)
        \/ glk_stream_open_file(1, filemode_Write)
  \/ /\ nWrites < MaxReadWrites
     /\ \/ \E str \in OtherStreams, ch \in UnitArgs : glk_put_char_stream(str, ch)
        \/ \E str \in OtherStreams, buf \in DataArgs : glk_put_buffer_stream(str, buf)
  \/ \E str \in StreamArgs : glk_get_char_stream(str)
  \/ \E str \in OtherStreams, buf \in LineBufArgs, len \in LenArgs :
       glk_get_buffer_stream(str, buf, len)
  \/ \E str \in OtherStreams, buf \in LineBufArgs, len \in LenArgs :
       glk_get_line_stream(str, buf, len)

SpecRead == Init /\ [][NextRead]_vars

\* the values another writer leaves in localStorage
StoredArgs == {<<>>, <<"7">>, <<"1", "2">>, <<"[", "7">>, <<"x">>, <<"[", "7", "]">>}

\* file streams opened on a store that others write too
NextStore ==
  \/ \E name \in FileNames, text \in StoredArgs : localStorage_setItem(name, text)
  \/ /\ Len(streams) < 1 + MaxStoreStreams
     /\ \E fref \in FileNames, fmode \in ReadModes : glk_stream_open_file(fref, fmode)
  \/ \E fref \in FileNames : glk_fileref_does_file_exist(fref)

SpecStore == Init /\ [][NextStore]_vars

\* writes to memory streams
NextMem ==
  \/ /\ Len(streams) < 1 + MaxMemStreams
     /\ \E buflen \in 0..MaxBufLen : glk_stream_open_memory(buflen, filemode_Write)
  \/ /\ nWrites < MaxMemWrites
     /\ \/ \E str \in StreamArgs, ch \in CharArgs : glk_put_char_stream(str, ch)
        \/ \E str \in StreamArgs, ch \in CharArgs : glk_put_char_stream_uni(str, ch)
        \/ \E str \in StreamArgs, text \in TextArgs : glk_put_string_stream(str, text)
        \/ \E str \in StreamArgs, buf \in BufArgs : glk_put_buffer_stream(str, buf)
  \/ \E str \in StreamOrNull : glk_stream_set_current(str)

SpecMem == Init /\ [][NextMem]_vars

\* the selectors the VM asks about, and the values it passes with them
SelectorArgs == 0..20 \cup {garglk_gestalt_Graphics, garglk_gestalt_Graphics + 1}
ValueArgs == {0, 65}

\* capability queries, between writes, flushes and events
NextGestalt ==
  \/ \E sel \in SelectorArgs, val \in ValueArgs : call_glk_gestalt(sel, val)
  \/ \E sel \in SelectorArgs, val \in ValueArgs : call_glk_gestalt_ext(sel, val, NULL)
  \/ OutCalls < MaxOut /\ \E text \in TextArgs : glk_put_string(text)
  \/ OutCalls < MaxOut /\ \E ch \in CharArgs : glk_put_char(ch)
  \/ \E event \in EventArgs : glk_select(event)
  \/ \E win \in {mainWindow, NULL} : glk_request_char_event(win)
  \/ update

SpecGestalt == Init /\ [][NextGestalt]_vars

(***************************************************************************)
(* Properties                                                              *)
(***************************************************************************)
Last(q) == q[Len(q)]
Front(q) == SubSeq(q, 1, Len(q) - 1)

\* a step of one of the flush checkpoints
Checkpoint ==
  \/ update
  \/ glk_exit
  \/ \E win \in WinOrNull : glk_request_char_event(win)
  \/ \E win \in WinOrNull, buf \in LineBufOrNull : _request_line(win, buf)

\* C1 as stated: as long as every write names the currently selected stream,
\* the texts passed to terminal.print, followed by what is still buffered,
\* are the written texts in write order, and the buffer is empty after each
\* checkpoint
C1_PrintedIsWrittenToCurrent ==
  /\ [](~strayed => Printed \o outputBuffer = writtenCur)
  /\ [][Checkpoint => outputBuffer' = <<>>]_vars

\* C1 as amended: the texts passed to terminal.print, followed by what is
\* still buffered, are the texts written to the current stream or to the main
\* stream in write order, with the banner of each glk_exit where it was
\* called; the buffer is empty after each checkpoint
C1_PrintedIsRouted ==
  /\ [](Printed \o outputBuffer = routed)
  /\ [][Checkpoint => outputBuffer' = <<>>]_vars

\* two writes were flushed by a checkpoint
C1_Witness ==
  /\ nWrites >= 2 /\ outputBuffer = <<>>
  /\ Len(termLog) >= 1 /\ Last(termLog).op = "print" /\ Len(Printed) >= 3

\* C6: fatal_error first prints the pending text, then shows the error, and
\* leaves the buffer empty
C6_FatalErrorFlushes ==
  [][\A msg \in TextArgs :
       fatal_error(msg) =>
         /\ outputBuffer' = <<>>
         /\ termLog' = (IF outputBuffer # <<>>
                          THEN Append(termLog, TermPrint(outputBuffer))
                          ELSE termLog) \o <<TermError(msg)>>]_vars

\* C7: when request_char or request_line returns, the buffer is empty and all
\* the text sent to the buffer has been printed; request_line's print comes
\* before its waitForInput
C7_FlushedBeforeInput ==
  [][/\ (\E win \in WinOrNull : glk_request_char_event(win)) =>
          outputBuffer' = <<>> /\ PrintedOf(termLog') = routed'
     /\ (\E win \in WinOrNull, buf \in LineBufOrNull : _request_line(win, buf)) =>
          /\ outputBuffer' = <<>>
          /\ Last(termLog') = TermWait
          /\ PrintedOf(Front(termLog')) = routed']_vars

\* request_line found text in the buffer
C7_Witness ==
  /\ Len(termLog) >= 2 /\ Last(termLog) = TermWait
  /\ termLog[Len(termLog) - 1].op = "print"
  /\ outputBuffer = <<>> /\ inputState.pending

\* the callback is past its copy loop
CopyDone ==
  SubSeq(lineBufs[inputState.buffer], 1, hc.len) = SubSeq(hc.command, 1, hc.len)

\* C2: when the callback has returned for a pending request, a captured event
\* and a line no longer than the buffer, the buffer starts with the line, the
\* request is no longer pending and the event's length is the line's; and the
\* callback changes the event only when the copy is complete
C2_LineDelivered ==
  /\ [](hc.pc = "resume" /\ hc.took /\ inputState.event # NULL
          /\ Len(hc.command) <= inputState.maxLen
        => /\ SubSeq(lineBufs[inputState.buffer], 1, Len(hc.command)) = hc.command
           /\ ~inputState.pending
           /\ events[inputState.event][3] = Len(hc.command))
  /\ [][hc.pc = "callback" /\ events' # events => CopyDone]_vars

\* "up" was delivered into a buffer after glk_select
C2_Witness ==
  /\ hc.pc = "resume" /\ hc.took /\ inputState.event # NULL
  /\ hc.command = <<117, 112>> /\ events[inputState.event][3] = 2

\* C3: the buffer of a request that was overwritten by a later request stays
\* as it was; the callback writes only to the buffer of the latest request;
\* and once the callback has returned nothing is left pending or registered
C3_SecondRequestWins ==
  /\ [](\A b \in DOMAIN abandoned : abandoned[b].has => lineBufs[b] = abandoned[b].val)
  /\ [](hc.pc = "resume" => inputResolver = NULL /\ (hc.took => ~inputState.pending))
  /\ [][\A b \in DOMAIN lineBufs :
          lineBufs'[b] # lineBufs[b] => b = inputState.buffer]_vars

\* a line was delivered after a request was overwritten
C3_Witness ==
  /\ hc.pc = "resume" /\ hc.took /\ hc.len > 0
  /\ \E b \in DOMAIN abandoned : abandoned[b].has /\ b # inputState.buffer

\* the stream opened last
NewStream == streams'[Len(streams')]

\* C4 as stated: a stream opened for reading on a name holds the units that
\* were written to the stream last saved under the name (nothing if none
\* was), and does_file_exist tells whether one was saved
C4_ReadsWhatWasWritten ==
  [][\A fref \in FileNames :
       /\ \A fmode \in ReadModes :
            glk_stream_open_file(fref, fmode) => NewStream.data = saved[fref].written
       /\ glk_fileref_does_file_exist(fref) =>
            ret' = IF saved[fref].has THEN 1 ELSE 0]_vars

\* C4 as amended: a stream opened for reading on a name holds the data
\* sequence of the stream last saved under the name (nothing if none was),
\* which is the units written to that stream if it was opened for writing
\* only and was neither the main nor the current stream when written to;
\* and does_file_exist tells whether one was saved
C4_ReadsWhatWasSaved ==
  [][\A fref \in FileNames :
       /\ \A fmode \in ReadModes :
            glk_stream_open_file(fref, fmode) =>
              /\ NewStream.data = saved[fref].val
              /\ saved[fref].plain => NewStream.data = saved[fref].written
       /\ glk_fileref_does_file_exist(fref) =>
            ret' = IF saved[fref].has THEN 1 ELSE 0]_vars

\* a stream opened for reading holds saved data of two or more numbers
C4_Witness ==
  \E str \in StreamArgs :
    /\ streams[str].fref # NULL /\ streams[str].fmode = filemode_Read
    /\ wroteTo[str] = <<>> /\ Len(streams[str].data) >= 2
    /\ saved[streams[str].fref].has /\ saved[streams[str].fref].plain
    /\ streams[str].data = saved[streams[str].fref].written

\* C5: the buffer of a memory stream keeps its length (a store at or past
\* buflen would grow it), and the cursor stays within 0..buflen
C5_MemoryWritesBounded ==
  \A str \in StreamArgs :
    streams[str].hasBuf =>
      /\ Len(streams[str].buf) = streams[str].buflen
      /\ streams[str].pos >= 0 /\ streams[str].pos <= streams[str].buflen

\* more characters were written to a memory stream than it holds
C5_Witness ==
  \E str \in StreamArgs :
    /\ streams[str].hasBuf /\ streams[str].buflen > 0
    /\ streams[str].pos = streams[str].buflen
    /\ streams[str].data = <<>> /\ streams[str].write_count > streams[str].buflen

NoDuplicates(q) == \A i, j \in 1..Len(q) : i # j => q[i] # q[j]

\* C8: no registration's handler is invoked twice; a handler is invoked only
\* if one is registered, which takes it out; vm.resume is called only once
\* the handler has returned and copied, and only if the VM has not quit
C8_OneShotThenResume ==
  /\ [](NoDuplicates(called) /\ Len(called) <= nReg)
  /\ [][Len(called') > Len(called) => inputResolver # NULL /\ inputResolver' = NULL]_vars
  /\ [][resumeLog' # resumeLog =>
          /\ hc.pc = "resume" /\ ~vmQuit
          /\ hc.took => CopyDone /\ ~inputState.pending]_vars

\* a second line was submitted with no handler registered
C8_Witness ==
  /\ hc.pc = "idle" /\ nSubmit = 2 /\ Len(called) = 1 /\ Len(resumeLog) = 1
  /\ lineBufs[1] = <<117, 112>>

\* C9: glk_select captures the event and sets its slots to line input, main
\* window, 0, 0; only glk_select and the callback of a pending request
\* change an event's length
C9_SelectPublishes ==
  [][\A event \in EventArgs :
       /\ glk_select(event) =>
            inputState'.event = event /\ events'[event] = <<3, mainWindow, 0, 0>>
       /\ events'[event][3] # events[event][3] =>
            \/ glk_select(event)
            \/ hc.pc = "callback" /\ inputState.pending /\ inputState.event = event]_vars

\* glk_select ran while a request was pending, after an earlier delivery
C9_Witness ==
  /\ inputState.event # NULL /\ inputState.pending /\ hc.pc = "idle"
  /\ events[inputState.event] = <<3, mainWindow, 0, 0>>
  /\ Len(resumeLog) >= 1

\* the answers the selectors have
GestaltAnswer(sel) == IF sel = 2 THEN 2 ELSE IF sel = 3 \/ sel = 15 THEN 1 ELSE 0

\* C10: glk_gestalt and glk_gestalt_ext return 2 for selector 2, 1 for
\* selectors 3 and 15 and 0 for any other, whatever the value argument and
\* the state, and change nothing
C10_GestaltAnswers ==
  [][\A sel \in SelectorArgs, val \in ValueArgs :
       call_glk_gestalt(sel, val) \/ call_glk_gestalt_ext(sel, val, NULL) =>
         /\ ret' = GestaltAnswer(sel)
         /\ UNCHANGED <<glkVars, vmVars, termVars, store>>]_vars

\* glk_gestalt answered the character-output selector while text was buffered
C10_Witness == ret = 2 /\ outputBuffer # <<>> /\ inputState.event # NULL

\* C11: glk_select_poll sets the event's kind slot to 0 and leaves the event's
\* other slots, the input-request state with its captured event, the output
\* buffer and everything else as they were
C11_PollReportsNone ==
  [][\A event \in EventArgs :
       glk_select_poll(event) =>
         /\ events'[event] = <<evtype_None, events[event][2], events[event][3],
                                events[event][4]>>
         /\ UNCHANGED <<glkVars, lineBufs, termVars, store>>]_vars

\* the kind of a captured event is "none" while a request is pending and text
\* is buffered
C11_Witness ==
  /\ inputState.event # NULL /\ inputState.pending
  /\ events[inputState.event][1] = evtype_None
  /\ events[inputState.event][2] = mainWindow
  /\ outputBuffer # <<>>

\* the text is not the serialization of a sequence of numbers
Malformed(text) == ~(JSONParse(text).ok /\ JSONParse(text).array)

\* C12: opening a file stream for reading on a name whose stored value is
\* malformed gives the stream an empty data sequence and leaves the stored
\* value as it was
C12_MalformedIsAbsent ==
  [][\A fref \in FileNames, fmode \in ReadModes :
       glk_stream_open_file(fref, fmode) /\ store[fref].has
         /\ Malformed(store[fref].val) =>
           /\ NewStream.data = <<>> /\ NewStream.dataIsArray
           /\ store' = store]_vars

\* C13: the cursor of a stream with a bound buffer is within 0..buflen, that
\* of any other stream within 0..length of its data
C13_CursorInRange ==
  \A str \in StreamArgs :
    /\ streams[str].pos >= 0
    /\ streams[str].pos <= (IF streams[str].hasBuf THEN streams[str].buflen
                                                   ELSE Len(streams[str].data))

\* the stream has a unit at position p: in its bound buffer below buflen,
\* else in its data
HasUnitAt(s, p) == (s.hasBuf /\ p < s.buflen) \/ p < Len(s.data)
UnitAt(s, p) == IF s.hasBuf /\ p < s.buflen THEN s.buf[p + 1] ELSE s.data[p + 1]

\* a read of stream str that returned n units, the units of the stream from
\* its cursor on, advanced the cursor and the read counter by n
Advanced(str, n) ==
  /\ streams'[str].pos = streams[str].pos + n
  /\ streams'[str].read_count = streams[str].read_count + n
  /\ \A i \in 0..(n - 1) : HasUnitAt(streams[str], streams[str].pos + i)

\* a bulk read into array buf that returned n units stored them at the start
\* of the array, in order, and left the rest of the array as it was
Stored(str, buf, n) ==
  /\ \A i \in 1..n : lineBufs'[buf][i] = UnitAt(streams[str], streams[str].pos + i - 1)
  /\ \A i \in (n + 1)..Len(lineBufs[buf]) : lineBufs'[buf][i] = lineBufs[buf][i]

\* the reads advance and store what they return; limit(buf, len) bounds the
\* count of a bulk read
ReadsAdvance(limit(_, _)) ==
  \A str \in StreamArgs :
    /\ glk_get_char_stream(str) =>
         IF HasUnitAt(streams[str], streams[str].pos)
           THEN ret' = UnitAt(streams[str], streams[str].pos) /\ Advanced(str, 1)
           ELSE ret' = NoChar /\ streams' = streams
    /\ \A buf \in LineBufArgs, len \in LenArgs :
         /\ glk_get_buffer_stream(str, buf, len) =>
              /\ Advanced(str, ret') /\ Stored(str, buf, ret')
              /\ ret' <= limit(buf, len)
              /\ ret' < limit(buf, len) => ~HasUnitAt(streams'[str], streams'[str].pos)
         /\ glk_get_line_stream(str, buf, len) =>
              /\ Advanced(str, ret') /\ Stored(str, buf, ret')
              /\ ret' <= limit(buf, len)
              /\ ret' < limit(buf, len) - 1 =>
                   \/ ~HasUnitAt(streams'[str], streams'[str].pos)
                   \/ ret' > 0 /\ lineBufs'[buf][ret'] = 10

\* the length asked for
Requested(buf, len) == len

\* the length asked for, or the length of the caller's array when it is 0
RequestedOrWhole(buf, len) == IF len = 0 THEN Len(lineBufs[buf]) ELSE len

\* C14 as stated: a read advances the cursor and the read counter by the
\* number of units it returns; a single read with nothing at the cursor
\* returns -1; a bulk read stores the units it counts, stops at the end of the
\* data (a line read also after a newline) and returns at most the requested
\* length
C14_ReadsWithinRequested == [][ReadsAdvance(Requested)]_vars

\* C14 as amended: the same, a bulk read returning at most the requested
\* length, or at most the length of the caller's array when the requested
\* length is 0
C14_ReadsWithinArray == [][ReadsAdvance(RequestedOrWhole)]_vars

\* a bulk read asked for 0 units and returned two
C14_Witness ==
  \E str \in OtherStreams :
    /\ ret = 2 /\ streams[str].pos = 2 /\ streams[str].read_count = 2
    /\ lineBufs[1] = <<0, 72>> /\ nWrites = 1

\* a write of the units to stream str was routed: to the output buffer if
\* the stream is the main or the current stream, else to the end of the
\* stream's own data, the output buffer staying as it was; the stream's write
\* counter advanced by the number of units and no other stream changed
Routed(str, units) ==
  /\ IF str = mainStream \/ str = currentStream
       THEN /\ outputBuffer' = outputBuffer \o units
            /\ streams'[str].data = streams[str].data
       ELSE /\ outputBuffer' = outputBuffer
            /\ streams'[str].data = streams[str].data \o units
  /\ streams'[str].write_count = streams[str].write_count + Len(units)
  /\ \A s \in StreamArgs \ {str} : streams'[s] = streams[s]
  /\ termLog' = termLog

\* C15: a stream-addressed write appends to the output buffer exactly when
\* its target is the main stream or the current stream; a write to another
\* stream leaves the output buffer as it was and appends to that stream's
\* data, and the stream's write counter advances by the units written
C15_WriteRouting ==
  [][\A str \in StreamArgs :
       /\ \A ch \in CharArgs : glk_put_char_stream(str, ch) => Routed(str, <<ch>>)
       /\ \A text \in TextArgs : glk_put_string_stream(str, text) => Routed(str, text)
       /\ \A buf \in BufArgs : glk_put_buffer_stream(str, buf) => Routed(str, buf)
       /\ \A text \in JStringArgs :
            glk_put_jstring_stream(str, text) => Routed(str, text)]_vars

\* a stream that is neither main nor current holds what was written to it,
\* and the main stream was written to while another stream was current
C15_Witness ==
  /\ currentStream \notin {mainStream, NULL}
  /\ outputBuffer # <<>> /\ streams[mainStream].write_count > 0
  /\ streams[currentStream].write_count = 0
  /\ \E str \in OtherStreams :
       /\ str # currentStream /\ streams[str].data # <<>>
       /\ streams[str].write_count = Len(streams[str].data)

\* C16: glk_cancel_line_event sets the window's pending input kind to none
\* and clears its line-buffer reference, reports zero in slot 0 of a result
\* structure if one is given, and leaves the VM-owned buffers and the output
\* buffer as they were
C16_CancelClearsWindow ==
  [][\A win \in WinOrNull, event \in EventOrNull :
       glk_cancel_line_event(win, event) =>
         /\ win # NULL =>
              /\ windows'[win].input_request_type = "null"
              /\ windows'[win].line_input_buf = NULL
         /\ \A w \in WindowArgs \ {win} : windows'[w] = windows[w]
         /\ event # NULL =>
              events'[event] = <<0, events[event][2], events[event][3], events[event][4]>>
         /\ \A e \in EventArgs \ {event} : events'[e] = events[e]
         /\ UNCHANGED <<lineBufs, outputBuffer, termLog>>]_vars

\* the line request of the main window was cancelled while text was buffered
C16_Witness ==
  /\ nReg > 0 /\ outputBuffer # <<>>
  /\ windows[mainWindow].input_request_type = "null"
  /\ windows[mainWindow].line_input_buf = NULL
  /\ events[1] = <<0, mainWindow, 0, 0>>

\* the number of characters the callback has to copy of the submitted line
Copied == IF Len(hc.command) <= inputState.maxLen THEN Len(hc.command)
          ELSE inputState.maxLen

\* C17: the callback of a pending request copies the first min(received
\* length, maximum length) characters and writes no other element: the
\* VM-owned arrays keep their lengths, and the length written into the
\* captured event is the number of characters copied
C17_CopyIsTruncated ==
  /\ [](Len(lineBufs[1]) = LineCap /\ Len(lineBufs[2]) = LineCap + 1)
  /\ [](hc.pc = "resume" /\ hc.took =>
          /\ SubSeq(lineBufs[inputState.buffer], 1, Copied) = SubSeq(hc.command, 1, Copied)
          /\ inputState.event # NULL => events[inputState.event][3] = Copied)
  /\ [][hc.pc = "callback" =>
          \A b \in DOMAIN lineBufs, i \in 1..(LineCap + 1) :
            (i <= Len(lineBufs[b]) /\ i <= Len(lineBufs'[b])
               /\ lineBufs'[b][i] # lineBufs[b][i])
              => b = inputState.buffer /\ i <= Copied]_vars

\* a line longer than the buffer was delivered, cut to the buffer's length
C17_Witness ==
  /\ hc.pc = "resume" /\ hc.took /\ Len(hc.command) > inputState.maxLen
  /\ inputState.event # NULL /\ events[inputState.event][3] = inputState.maxLen
  /\ lineBufs[inputState.buffer] = SubSeq(hc.command, 1, inputState.maxLen)

\* C18: a handler invoked while no request is pending leaves the VM-owned
\* arrays, the event structures, the request state and the output buffer as
\* they were
C18_IdleCallbackIsNoOp ==
  [][(~inputState.pending /\ \E input \in CommandArgs : host_callback(input))
       => UNCHANGED <<lineBufs, events, inputState, outputBuffer>>]_vars

\* the handler of the only request has delivered a line and was then invoked
\* again, with text in the output buffer and an event captured
C18_Witness ==
  /\ nReg = 1 /\ called = <<1, 1>> /\ hc.pc = "idle"
  /\ inputState.buffer # NULL /\ ~inputState.pending
  /\ inputState.event # NULL /\ outputBuffer # <<>>

\* the units the step writes to stream str
UnitsWritten(str) == SubSeq(wroteTo'[str], Len(wroteTo[str]) + 1, Len(wroteTo'[str]))

\* the number of units of the step's write that fit into the bound array
Fitting(str) ==
  IF Len(UnitsWritten(str)) <= streams[str].buflen - streams[str].pos
    THEN Len(UnitsWritten(str))
    ELSE streams[str].buflen - streams[str].pos

\* C19: a write to a memory stream that is neither the main nor the current
\* stream stores the units that fit into the bound array from the cursor on,
\* advances the cursor by their number, and stores nothing in str.data
C19_MemoryWritesFillBuffer ==
  [][\A str \in StreamArgs :
       (streams[str].hasBuf /\ ~ToBuffer(str) /\ wroteTo'[str] # wroteTo[str])
         => /\ streams'[str].pos = streams[str].pos + Fitting(str)
            /\ \A i \in 1..Fitting(str) :
                 streams'[str].buf[streams[str].pos + i] = UnitsWritten(str)[i]
            /\ streams'[str].data = streams[str].data]_vars

\* the line request on the main window was cancelled and none was made since
\* (in SpecInOut every request names the main window)
Cancelled == nReg > 0 /\ windows[mainWindow].input_request_type = "null"

\* C20: once the outstanding line request has been cancelled, no request is
\* pending, and a handler invoked before the next request neither stores into
\* a VM-owned array nor changes an event structure
C20_CancelIsEffective ==
  /\ [](Cancelled => ~inputState.pending)
  /\ [][Cancelled /\ hc.pc = "callback" => lineBufs' = lineBufs /\ events' = events]_vars

\* the argument of the vm.resume call the step makes
Resumed == resumeLog'[Len(resumeLog')]

\* C21: when a submitted line has completed a pending request, vm.resume is
\* called with the number of characters copied into the VM-owned array, which
\* is the length written into the captured event and is at most the array's
\* length
C21_ResumeLengthIsCopied ==
  [][(resumeLog' # resumeLog /\ hc.took)
       => /\ Resumed = Copied
          /\ inputState.event # NULL => events[inputState.event][3] = Resumed
          /\ Resumed <= Len(lineBufs[inputState.buffer])]_vars

\* C22: whatever is opened, selected (a NULL argument included) or closed, a
\* stream is selected, the main window is there and owns the main stream, and
\* what was written to the main stream is in the output buffer or printed:
\* after a flush all of it has been passed to terminal.print
C22_MainStreamPersists ==
  /\ [](/\ currentStream # NULL /\ currentStream \in StreamArgs
        /\ mainWindow \in WindowArgs /\ mainStream \in StreamArgs
        /\ windows[mainWindow].str = mainStream
        /\ Printed \o outputBuffer = FromCharCodes(wroteTo[mainStream]))
  /\ [][update => outputBuffer' = <<>> /\ Printed' = FromCharCodes(wroteTo[mainStream])]_vars

\* the main stream was closed after one write (the event holds its write
\* count), another stream is selected, and a second write to the main stream
\* has been flushed to the terminal
C22_Witness ==
  /\ currentStream # mainStream
  /\ events[1][2] = 1
  /\ Len(wroteTo[mainStream]) = 2 /\ outputBuffer = <<>>
  /\ Printed = FromCharCodes(wroteTo[mainStream])

====
